---- MODULE Spec2Model ----
(***************************************************************************)
(* A model of kitty-album (album.py): the scaling cache (ImageScaler), its  *)
(* workers (ImageScalerThread) and the viewer's navigation state (Album).  *)
(*                                                                         *)
(* SpecScaler drives the cache through its public operations (scale, stop, *)
(* teardown) in any order while the workers and their external resize      *)
(* processes run concurrently.                                             *)
(*                                                                         *)
(* SpecAlbum drives the viewer's navigation as test_album.py does: the     *)
(* file list is loaded, ImageScaler is a mock (a redisplay is an event     *)
(* that changes no state of the cache), the goto_* methods are called      *)
(* directly and keys are dispatched as in one iteration of Album.__call__. *)
(*                                                                         *)
(* Spec is the program: the control thread runs the loop of Album.__call__,*)
(* the loader thread runs ImagesLoader.run and Album.on_load, both call    *)
(* Album.display and wait on the cache in get_scaled_current, the workers  *)
(* and their resize processes run beside them, and the process exits once  *)
(* the control thread has left and every other thread has ended.           *)
(***************************************************************************)
EXTENDS Integers, Sequences, FiniteSets, TLC

VARIABLES
    store,      \* ImageScaler._store: fingerprint -> worker (index into threads)
    threads,    \* every ImageScalerThread created so far, in creation order
    files,      \* Album._files: the loaded list of files
    index,      \* Album._index
    zoom_level, \* Album._zoom_level
    walk,       \* the directory walk the enumerator makes
    entry,      \* the position of the entry path in the walk, 0 for a directory
    main,       \* the control thread: where it stands in Album.__call__
    loader,     \* the ImagesLoader thread: where it stands, its flags, its result
    last        \* the call made by the latest step and its outcome

vars == <<store, threads, files, index, zoom_level, walk, entry, main, loader, last>>

None == "None"

\* ------------------------------------------------------------------ bounds

\* The files of the enumerated tree are the paths 1..NumFiles.
NumFiles == 3
\* No more than MaxThreads workers are created in one run of the model.
MaxThreads == 2

\* The directory walk of the enumerator yields at most MaxWalk entries.
MaxWalk == 4

\* In the program the walk yields at most MaxProgWalk entries and the user
\* zooms in while the zoom level is below MaxProgZoom.
MaxProgWalk == 2
MaxProgZoom == 1

Files == 1..NumFiles

\* The display name of a file (pathlib's file.name), the last component of its
\* path: paths 1 and 2 lie in one directory and have two names, a path f > 2
\* lies in a subdirectory and has the name of path f - 2.
FileName(f) == IF f > 2 THEN f - 2 ELSE f

\* What the dimension query can print for an image: <<width, height>>.
Sizes == {<<3, 3>>, <<4, 3>>, <<3, 100>>}
\* What the window geometry query can print.
WindowSizes == {<<50, 80>>}
\* The zoom levels the cache is asked for.
Zooms == {0, 3}
\* Exit statuses of an external command.
Statuses == {0, 1}
\* What the dimension query can answer: <<exit status, printed size>>; a failed
\* query prints no size.
Measurements == {<<1, <<0, 0>>>>} \cup {<<0, s>> : s \in Sizes}

\* ------------------------------------------------------------------ helpers

Range(f) == {f[x] : x \in DOMAIN f}

EmptyStore == [x \in {} |-> 0]

\* ImageScalerThread.menu_height
menu_height == 60

\* HelpersMixin.get_w_x_h: the command's exit status decides; on status 0 the
\* printed "<w>x<h>" is parsed.
get_w_x_h_noraise(status, out) ==
    [raised |-> None, w |-> out[1], h |-> out[2]]

get_w_x_h(status, out) ==
    IF status # 0
    THEN [raised |-> "ScalingError", w |-> 0, h |-> 0]
    ELSE [raised |-> None, w |-> out[1], h |-> out[2]]

\* scale's zoom adjustment, int(d + (d / 100 * (zoom * 10))): for d up to 20000
\* and zoom up to 11 the float expression truncates to this integer.
ZoomAdjust_nozoom(d, zoom) == d

ZoomAdjust(d, zoom) ==
    IF zoom > 0 THEN d + (d * zoom * 10) \div 100 ELSE d

\* scale's i_id, f'{file.name}_{i_width}_{i_height}'
FingerprintOf(file, i_width, i_height) == <<FileName(file), i_width, i_height>>

Fingerprint(file, size, zoom) ==
    FingerprintOf(file, ZoomAdjust(size[1], zoom), ZoomAdjust(size[2], zoom))

\* ImageScalerThread(args=(file, i_height, i_width, zoom)) right after start().
\*   pc      where run() stands: "start", "tmp" (temp file made, line 114),
\*           "poll" (resize launched, lines 116-119), "dead" (run returned),
\*           "crashed" (run raised), "freed" (the object no longer exists)
\*   tmpf    the _scaled wrapper: "none", "open" or "closed"
\*   onDisk  whether a file exists at the temp path
\*   unlinks how often the temp path was deleted by the wrapper
\*   proc    the external resize process: "none", "running", "exited"
NewThread(file, i_height, i_width, zoom) ==
    [file |-> file, i_height |-> i_height, i_width |-> i_width, zoom |-> zoom,
     pc |-> "start", done |-> FALSE, stopped |-> FALSE, scaled |-> None,
     width |-> 0, height |-> 0,
     tmpf |-> "none", onDisk |-> FALSE, unlinks |-> 0, proc |-> "none"]

\* _TemporaryFileWrapper.close(): closes once and deletes the file.
Release(t) ==
    IF t.tmpf = "open"
    THEN [t EXCEPT !.tmpf = "closed", !.onDisk = FALSE, !.unlinks = @ + 1]
    ELSE t

\* A worker object is freed once its thread has ended and the store no longer
\* holds it; freeing it closes a temp file wrapper that is still open. Of a
\* freed worker only the temp path and the resize process remain.
Freed(t) ==
    [NewThread(0, 0, 0, 0) EXCEPT !.pc = "freed", !.proc = t.proc,
        !.stopped = t.stopped, !.tmpf = Release(t).tmpf,
        !.onDisk = Release(t).onDisk, !.unlinks = Release(t).unlinks]

Collect(ts, st) ==
    [i \in DOMAIN ts |->
        IF ts[i].pc \in {"dead", "crashed"} /\ i \notin Range(st)
        THEN Freed(ts[i]) ELSE ts[i]]

\* A worker whose thread has not ended.
Running(t) == t.pc \in {"start", "tmp", "poll"}

\* ImageScaler.get / is_done: a KeyError for a fingerprint that is not stored.
get(id) == IF id \in DOMAIN store THEN threads[store[id]].scaled ELSE "KeyError"

is_done(id) == IF id \in DOMAIN store THEN threads[store[id]].done ELSE "KeyError"

NoCall == [op |-> "step"]

\* The cache as it stands.
Here == [store |-> store, threads |-> threads]

\* The control thread and the loader thread when they take no part: the loop of
\* Album.__call__ is not running and the loader has delivered its result.
MainIdle == [pc |-> "idle", id |-> None, seen |-> None, how |-> None]

LoaderIdle == [pc |-> "dead", id |-> None, seen |-> None, done |-> TRUE,
               stopped |-> FALSE, files |-> <<>>, index |-> 0]

AlbumVars == <<files, index, zoom_level, walk, entry, main, loader>>

\* ------------------------------------------------------------------ ImageScaler

\* ImageScaler.scale(file, zoom) on the cache S = [store, threads], with what
\* the dimension query answers: the cache it leaves, what it raised, the
\* fingerprint it returned and whether that fingerprint was already stored.
DoScale_nocheck(S, file, zoom, status, out) ==
    LET m == get_w_x_h(status, out)
        i_width == ZoomAdjust(m.w, zoom)
        i_height == ZoomAdjust(m.h, zoom)
        i_id == FingerprintOf(file, i_width, i_height)
    IN  IF m.raised # None
        THEN [store |-> S.store, threads |-> S.threads, raised |-> m.raised,
              ret |-> None, hit |-> FALSE]
        ELSE [store |-> [x \in DOMAIN S.store \cup {i_id} |->
                            IF x = i_id THEN Len(S.threads) + 1 ELSE S.store[x]],
              threads |-> Append(S.threads, NewThread(file, i_height, i_width, zoom)),
              raised |-> None, ret |-> i_id, hit |-> FALSE]

DoScale(S, file, zoom, status, out) ==
    LET m == get_w_x_h(status, out)
        i_width == ZoomAdjust(m.w, zoom)
        i_height == ZoomAdjust(m.h, zoom)
        i_id == FingerprintOf(file, i_width, i_height)
    IN  IF m.raised # None
        THEN [store |-> S.store, threads |-> S.threads, raised |-> m.raised,
              ret |-> None, hit |-> FALSE]
        ELSE IF i_id \in DOMAIN S.store
        THEN [store |-> S.store, threads |-> S.threads, raised |-> None,
              ret |-> i_id, hit |-> TRUE]
        ELSE [store |-> [x \in DOMAIN S.store \cup {i_id} |->
                            IF x = i_id THEN Len(S.threads) + 1 ELSE S.store[x]],
              threads |-> Append(S.threads, NewThread(file, i_height, i_width, zoom)),
              raised |-> None, ret |-> i_id, hit |-> FALSE]

\* A scale call of the harness, recorded in last; no call creates a worker
\* beyond MaxThreads.
scale(file, zoom, status, out) ==
    LET r == DoScale(Here, file, zoom, status, out)
    IN  /\ Len(r.threads) <= MaxThreads
        /\ threads' = r.threads
        /\ store' = r.store
        /\ last' = IF r.raised # None
                   THEN [op |-> "scale", status |-> status, raised |-> r.raised]
                   ELSE [op |-> "scale", file |-> file, zoom |-> zoom,
                         status |-> status, native |-> out, raised |-> None,
                         ret |-> r.ret, hit |-> r.hit]

\* ImageScaler.stop(id)
stop_keep(id) ==
    IF id \notin DOMAIN store
    THEN /\ last' = [op |-> "stop", raised |-> "KeyError"]
         /\ UNCHANGED <<store, threads>>
    ELSE /\ threads' = [threads EXCEPT ![store[id]].stopped = TRUE]
         /\ store' = store
         /\ last' = [op |-> "stop", id |-> id, raised |-> None, wid |-> store[id]]

\* What stop(id) makes of the cache S = [store, threads] when id is stored.
DoStop(S, id) ==
    LET st == [x \in DOMAIN S.store \ {id} |-> S.store[x]]
    IN  [store |-> st,
         threads |-> Collect([S.threads EXCEPT ![S.store[id]].stopped = TRUE], st)]

stop(id) ==
    IF id \notin DOMAIN store
    THEN /\ last' = [op |-> "stop", raised |-> "KeyError"]
         /\ UNCHANGED <<store, threads>>
    ELSE /\ threads' = DoStop(Here, id).threads
         /\ store' = DoStop(Here, id).store
         /\ last' = [op |-> "stop", id |-> id, raised |-> None, wid |-> store[id]]

\* ImageScaler.teardown()
teardown_noclear ==
    /\ threads' = [i \in DOMAIN threads |->
                     IF i \in Range(store) THEN Release(threads[i]) ELSE threads[i]]
    /\ store' = store
    /\ last' = [op |-> "teardown", raised |-> None, ids |-> DOMAIN store,
                wids |-> Range(store)]

\* What teardown() makes of the cache S = [store, threads].
DoTeardown(S) ==
    [store |-> EmptyStore,
     threads |-> Collect([i \in DOMAIN S.threads |->
                            IF i \in Range(S.store) THEN Release(S.threads[i])
                            ELSE S.threads[i]], EmptyStore)]

teardown ==
    /\ threads' = DoTeardown(Here).threads
    /\ store' = DoTeardown(Here).store
    /\ last' = [op |-> "teardown", raised |-> None, ids |-> DOMAIN store,
                wids |-> Range(store)]

\* ------------------------------------------------------------------ ImageScalerThread

\* run(), lines 108-114 and 121-124: the window geometry query, the target size
\* and the choice between the resize path (the temp file is made) and the
\* original file (the worker is done at once).
RunStart(w, status, win) ==
    /\ threads[w].pc = "start"
    /\ LET t == threads[w]
           m == get_w_x_h(status, win)
           avail == m.h - menu_height
           width == IF t.i_width > m.w THEN m.w ELSE t.i_width
           height == IF t.i_height > avail THEN avail ELSE t.i_height
       IN  threads' = Collect(
             [threads EXCEPT ![w] =
                IF m.raised # None
                THEN [t EXCEPT !.pc = "crashed"]
                ELSE IF t.i_height > avail \/ t.zoom # 0
                THEN [t EXCEPT !.pc = "tmp", !.width = width, !.height = height,
                               !.tmpf = "open", !.onDisk = TRUE]
                ELSE [t EXCEPT !.pc = "dead", !.width = width, !.height = height,
                               !.scaled = "file", !.done = TRUE]], store)
    /\ last' = NoCall
    /\ UNCHANGED store

\* run(), lines 115-116: the result path is set and the resize is launched.
RunLaunch(w) ==
    /\ threads[w].pc = "tmp"
    /\ threads' = [threads EXCEPT ![w].pc = "poll", ![w].scaled = "tmp",
                                  ![w].proc = "running"]
    /\ last' = NoCall
    /\ UNCHANGED store

\* run(), lines 118-124: the polling loop ends when the resize process has
\* exited or the worker was stopped, and the worker marks itself done.
RunPoll(w) ==
    /\ threads[w].pc = "poll"
    /\ threads[w].proc = "exited" \/ threads[w].stopped
    /\ threads' = Collect([threads EXCEPT ![w].pc = "dead", ![w].done = TRUE], store)
    /\ last' = NoCall
    /\ UNCHANGED store

\* The external resize process ends; when it succeeded it has written its output
\* to the destination path.
MagickExit(w, status) ==
    /\ threads[w].proc = "running"
    /\ threads' = [threads EXCEPT ![w].proc = "exited",
                                  ![w].onDisk = IF status = 0 THEN TRUE ELSE @]
    /\ last' = NoCall
    /\ UNCHANGED store

\* ------------------------------------------------------------------ SpecScaler

Fingerprints == {Fingerprint(f, s, z) : f \in Files, s \in Sizes, z \in Zooms}

InitAlbum ==
    /\ files = <<>>
    /\ index = 0
    /\ zoom_level = 0
    /\ walk = <<>>
    /\ entry = 0
    /\ main = MainIdle
    /\ loader = LoaderIdle

InitScaler ==
    /\ store = EmptyStore
    /\ threads = <<>>
    /\ last = NoCall
    /\ InitAlbum

CallScale ==
    /\ \E f \in Files, z \in Zooms, m \in Measurements : scale(f, z, m[1], m[2])
    /\ UNCHANGED AlbumVars

CallStop ==
    /\ \E id \in Fingerprints : stop(id)
    /\ UNCHANGED AlbumVars

CallTeardown ==
    /\ teardown
    /\ UNCHANGED AlbumVars

WorkerStep ==
    /\ \E w \in DOMAIN threads :
          \/ \E st \in Statuses, win \in WindowSizes : RunStart(w, st, win)
          \/ RunLaunch(w)
          \/ RunPoll(w)
          \/ \E st \in Statuses : MagickExit(w, st)
    /\ UNCHANGED AlbumVars

NextScaler == CallScale \/ CallStop \/ CallTeardown \/ WorkerStep

SpecScaler == InitScaler /\ [][NextScaler]_vars

\* ------------------------------------------------------------------ ImagesLoader

\* A directory walk is a sequence of entries, each an image file ("img") or
\* another file ("txt"); a path is its position in the walk. entry is the
\* position of the entry path, 0 when the viewer was given a directory.
Walks == UNION {[1..n -> {"img", "txt"}] : n \in 1..MaxWalk}

\* ImagesLoader.run, the loop of lines 80-88 from entry i on: <<files, index>>.
RECURSIVE LoaderScan(_, _, _, _, _)
LoaderScan(wk, entry_path, i, fs, idx) ==
    IF i > Len(wk) THEN <<fs, idx>>
    ELSE LET fs2 == IF wk[i] = "img" THEN Append(fs, i) ELSE fs
             idx2 == IF entry_path # 0 /\ i = entry_path THEN Len(fs2) - 1 ELSE idx
         IN  LoaderScan(wk, entry_path, i + 1, fs2, idx2)

LoaderRun(wk, entry_path) == LoaderScan(wk, entry_path, 1, <<>>, 0)

\* ------------------------------------------------------------------ Album

\* Album.can_zoom_in compares the zoom level with this number.
ZMAX == 10

Keys == {"RIGHT", "LEFT", "END", "HOME", "=", "-", "other"}

\* The navigation state a method works on, with the number of display() calls
\* it has made.
Cur == [index |-> index, zoom |-> zoom_level, displays |-> 0]

\* Album.index (setter)
SetIndex_always(s, value) ==
    [index |-> value, zoom |-> 0, displays |-> s.displays + 1]

SetIndex_keepzoom(s, value) ==
    IF value # s.index
    THEN [index |-> value, zoom |-> s.zoom, displays |-> s.displays + 1]
    ELSE s

SetIndex(s, value) ==
    IF value # s.index
    THEN [index |-> value, zoom |-> 0, displays |-> s.displays + 1]
    ELSE s

\* Album.has_next / has_prev at index i
HasNextAt_off(i) == Len(files) > 1 /\ i <= Len(files) - 1

HasNextAt(i) == Len(files) > 1 /\ i <= Len(files) - 2

HasPrevAt(i) == i > 0

has_next == HasNextAt(index)

has_prev == HasPrevAt(index)

\* Album.can_zoom_in / can_zoom_out
can_zoom_in == 10 >= zoom_level

can_zoom_out == zoom_level > 0

\* Album.zoom_in / zoom_out
zoom_in(s) == [s EXCEPT !.zoom = @ + 1, !.displays = @ + 1]

zoom_out(s) == [s EXCEPT !.zoom = @ - 1, !.displays = @ + 1]

\* Album.goto_next / goto_prev / goto_first / goto_last
goto_next(s) == IF HasNextAt(s.index) THEN SetIndex(s, s.index + 1) ELSE s

goto_prev(s) == IF HasPrevAt(s.index) THEN SetIndex(s, s.index - 1) ELSE s

goto_first(s) == SetIndex(s, 0)

goto_last(s) == SetIndex(s, Len(files) - 1)

\* Album.__call__, lines 521-532: what one key does once the loader is done.
Dispatch(key) ==
    IF key = "RIGHT" /\ has_next THEN goto_next(Cur)
    ELSE IF key = "LEFT" /\ has_prev THEN goto_prev(Cur)
    ELSE IF key = "END" /\ has_next THEN goto_last(Cur)
    ELSE IF key = "HOME" /\ has_prev THEN goto_first(Cur)
    ELSE IF key = "=" /\ can_zoom_in THEN zoom_in(Cur)
    ELSE IF key = "-" /\ can_zoom_out THEN zoom_out(Cur)
    ELSE Cur

\* ------------------------------------------------------------------ SpecAlbum

\* The state a call leaves, and the call: its name, the key it dispatched, the
\* index and zoom level it started from and the display() calls it made.
Apply(op, key, s) ==
    /\ index' = s.index
    /\ zoom_level' = s.zoom
    /\ last' = [op |-> op, key |-> key, from |-> <<index, zoom_level>>,
                displays |-> s.displays]
    /\ UNCHANGED <<files, store, threads, walk, entry, main, loader>>

InitAlbumLoaded ==
    /\ store = EmptyStore
    /\ threads = <<>>
    /\ last = NoCall
    /\ zoom_level = 0
    /\ main = MainIdle
    /\ loader = LoaderIdle
    /\ walk \in Walks
    /\ entry \in 0..Len(walk)
    /\ LoaderRun(walk, entry)[1] # <<>>
    /\ files = LoaderRun(walk, entry)[1]
    /\ index = LoaderRun(walk, entry)[2]

CallGotoNext == Apply("goto_next", None, goto_next(Cur))

CallGotoPrev == Apply("goto_prev", None, goto_prev(Cur))

CallGotoFirst == Apply("goto_first", None, goto_first(Cur))

CallGotoLast == Apply("goto_last", None, goto_last(Cur))

KeyPress == \E key \in Keys : Apply("key", key, Dispatch(key))

NextAlbum ==
    CallGotoNext \/ CallGotoPrev \/ CallGotoFirst \/ CallGotoLast \/ KeyPress

SpecAlbum == InitAlbumLoaded /\ [][NextAlbum]_vars

\* ------------------------------------------------------------------ Spec, the program

\* Album.exit_keys: ctrl+d, enter, q
exit_keys == {"ctrl+d", "enter", "q"}

\* What getch() can return in the program.
ProgKeys == Keys \cup {"q"}

\* What the dimension query answers in the program: a failure, an image that
\* fits the window and one that is higher than the window.
ProgMeasurements == {<<1, <<0, 0>>>>, <<0, <<3, 3>>>>, <<0, <<3, 100>>>>}

\* The keys that differ for a wait on the cache.
WaitKeys == {"q", "other"}

ProgWalks == UNION {[1..n -> {"img", "txt"}] : n \in 1..MaxProgWalk}

\* Album.current: self._files[self.index], an IndexError outside [-N, N-1].
CurrentValid(i) == -Len(files) <= i /\ i < Len(files)

CurrentOf(i) == IF i >= 0 THEN files[i + 1] ELSE files[Len(files) + i + 1]

\* Album.display up to the wait in get_scaled_current, at index i and zoom z
\* (every image of the walk is of a scalable type): the current file is looked
\* up and scale is called.
DisplayResult(i, z, m) ==
    IF ~CurrentValid(i)
    THEN [store |-> store, threads |-> threads, raised |-> "IndexError",
          ret |-> None, hit |-> FALSE]
    ELSE DoScale(Here, CurrentOf(i), z, m[1], m[2])

BeginDisplay(i, z, m) ==
    /\ Len(DisplayResult(i, z, m).threads) <= MaxThreads
    /\ threads' = DisplayResult(i, z, m).threads
    /\ store' = DisplayResult(i, z, m).store
    /\ last' = NoCall

\* Album.teardown: the loader is told to stop when it is alive.
StopLoader(l) == IF l.pc # "dead" THEN [l EXCEPT !.stopped = TRUE] ELSE l

\* get_scaled_current, lines 401-410, one turn of the wait on fingerprint id with
\* the key getch() returns: a KeyError when the entry is gone, "done" when the
\* worker is done, "exit" on an exit key, "again" otherwise.
WaitOutcome_nodone(id, key) ==
    IF id \notin DOMAIN store THEN "KeyError"
    ELSE IF key \in exit_keys THEN "exit"
    ELSE "done"

WaitOutcome(id, key) ==
    IF id \notin DOMAIN store THEN "KeyError"
    ELSE IF threads[store[id]].done THEN "done"
    ELSE IF key \in exit_keys THEN "exit"
    ELSE "again"

\* get_scaled_current, lines 405-408: stop(i_id), then Album.teardown().
ExitFromWait(id) ==
    /\ threads' = DoTeardown(DoStop(Here, id)).threads
    /\ store' = DoTeardown(DoStop(Here, id)).store
    /\ last' = NoCall

\* Album.__call__, one iteration of the loop: an exit key ends the loop and
\* Album.teardown runs; before the loader is done every other key is dropped;
\* afterwards the key is dispatched and a redisplay runs up to its wait.
MainKey(key, m) ==
    /\ main.pc = "loop"
    /\ key = "=" => zoom_level < MaxProgZoom
    /\ UNCHANGED <<files, walk, entry>>
    /\ IF key \in exit_keys
       THEN /\ main' = [main EXCEPT !.pc = "shutdown", !.how = "normal"]
            /\ loader' = StopLoader(loader)
            /\ threads' = DoTeardown(Here).threads
            /\ store' = DoTeardown(Here).store
            /\ last' = NoCall
            /\ UNCHANGED <<index, zoom_level>>
       ELSE IF ~loader.done
       THEN /\ last' = NoCall
            /\ UNCHANGED <<main, loader, store, threads, index, zoom_level>>
       ELSE /\ index' = Dispatch(key).index
            /\ zoom_level' = Dispatch(key).zoom
            /\ UNCHANGED loader
            /\ IF Dispatch(key).displays = 0
               THEN /\ last' = NoCall
                    /\ UNCHANGED <<main, store, threads>>
               ELSE LET r == DisplayResult(Dispatch(key).index, Dispatch(key).zoom, m)
                    IN  /\ BeginDisplay(Dispatch(key).index, Dispatch(key).zoom, m)
                        /\ main' = IF r.raised = "IndexError"
                                   THEN [main EXCEPT !.pc = "shutdown",
                                                     !.how = "crashed"]
                                   ELSE IF r.raised = "ScalingError" THEN main
                                   ELSE [main EXCEPT !.pc = "wait", !.id = r.ret]

\* The control thread in the wait of get_scaled_current, lines 401-408: when
\* is_done answers true the thread goes on to line 410 with the worker whose
\* flag it has seen.
MainWait(key) ==
    /\ main.pc = "wait"
    /\ UNCHANGED <<files, index, zoom_level, walk, entry>>
    /\ LET o == WaitOutcome(main.id, key)
       IN  IF o = "exit"
           THEN /\ ExitFromWait(main.id)
                /\ loader' = StopLoader(loader)
                /\ main' = [main EXCEPT !.pc = "shutdown", !.id = None, !.how = "normal"]
           ELSE /\ UNCHANGED <<store, threads, loader>>
                /\ last' = NoCall
                /\ main' = IF o = "KeyError"
                           THEN [main EXCEPT !.pc = "shutdown", !.id = None,
                                             !.how = "crashed"]
                           ELSE IF o = "done"
                           THEN [main EXCEPT !.pc = "get", !.seen = store[main.id]]
                           ELSE main

\* The record of a get(id) call: who made it, the worker it read, the worker
\* whose Done flag the caller had seen and the result path it returned.
GetCall(by, id, seen) ==
    [op |-> "get", by |-> by, id |-> id, wid |-> store[id], seen |-> seen,
     ret |-> get(id)]

\* The control thread at line 410, get(i_id), and the rest of display: a
\* KeyError when the entry is gone, otherwise the image is rendered and the
\* thread is back in the loop of Album.__call__.
MainGet ==
    /\ main.pc = "get"
    /\ UNCHANGED <<store, threads, files, index, zoom_level, walk, entry, loader>>
    /\ IF main.id \notin DOMAIN store
       THEN /\ last' = NoCall
            /\ main' = [main EXCEPT !.pc = "shutdown", !.id = None, !.seen = None,
                                    !.how = "crashed"]
       ELSE /\ last' = GetCall("main", main.id, main.seen)
            /\ main' = [main EXCEPT !.pc = "loop", !.id = None, !.seen = None]

\* ImagesLoader.run, lines 79-90: the walk (cut short when the loader was
\* stopped) and the done flag.
LoaderGlob ==
    /\ loader.pc = "glob"
    /\ \E n \in 0..Len(walk) :
          /\ ~loader.stopped => n = Len(walk)
          /\ LET r == LoaderRun(SubSeq(walk, 1, n), entry)
             IN  loader' = [loader EXCEPT !.pc = "callback", !.done = TRUE,
                                          !.files = r[1], !.index = r[2]]
    /\ last' = NoCall
    /\ UNCHANGED <<store, threads, files, index, zoom_level, walk, entry, main>>

\* Album.on_load, lines 245-247: the file list and the index are taken over.
LoaderOnLoad ==
    /\ loader.pc = "callback"
    /\ files' = loader.files
    /\ index' = loader.index
    /\ loader' = [loader EXCEPT !.pc = "onload"]
    /\ last' = NoCall
    /\ UNCHANGED <<store, threads, zoom_level, walk, entry, main>>

\* Album.on_load, lines 249-251: the loop ends when the loader was stopped,
\* otherwise display(True) runs up to its wait.
LoaderLoop(m) ==
    /\ loader.pc = "onload"
    /\ UNCHANGED <<files, index, zoom_level, walk, entry, main>>
    /\ IF loader.stopped
       THEN /\ loader' = [loader EXCEPT !.pc = "dead"]
            /\ last' = NoCall
            /\ UNCHANGED <<store, threads>>
       ELSE LET r == DisplayResult(index, zoom_level, m)
            IN  /\ BeginDisplay(index, zoom_level, m)
                /\ loader' = IF r.raised = "IndexError"
                             THEN [loader EXCEPT !.pc = "dead"]
                             ELSE IF r.raised = "ScalingError" THEN loader
                             ELSE [loader EXCEPT !.pc = "wait", !.id = r.ret]

\* The loader thread in the wait of get_scaled_current: exit() ends this thread
\* only.
LoaderWait(key) ==
    /\ loader.pc = "wait"
    /\ UNCHANGED <<files, index, zoom_level, walk, entry, main>>
    /\ LET o == WaitOutcome(loader.id, key)
       IN  IF o = "exit"
           THEN /\ ExitFromWait(loader.id)
                /\ loader' = [loader EXCEPT !.pc = "dead", !.id = None,
                                             !.stopped = TRUE]
           ELSE /\ UNCHANGED <<store, threads>>
                /\ last' = NoCall
                /\ loader' = IF o = "KeyError"
                             THEN [loader EXCEPT !.pc = "dead", !.id = None]
                             ELSE IF o = "done"
                             THEN [loader EXCEPT !.pc = "get",
                                                 !.seen = store[loader.id]]
                             ELSE loader

\* The loader thread at line 410, get(i_id), and the rest of display(True): a
\* KeyError ends the thread; a render command that exits 0 ends the loop of
\* on_load, any other status makes it display again.
LoaderGet(st) ==
    /\ loader.pc = "get"
    /\ UNCHANGED <<store, threads, files, index, zoom_level, walk, entry, main>>
    /\ IF loader.id \notin DOMAIN store
       THEN /\ last' = NoCall
            /\ loader' = [loader EXCEPT !.pc = "dead", !.id = None, !.seen = None]
       ELSE /\ last' = GetCall("loader", loader.id, loader.seen)
            /\ loader' = [loader EXCEPT !.id = None, !.seen = None,
                                        !.pc = IF st = 0 THEN "dead" ELSE "onload"]

\* The workers and their resize processes, while the process lives.
ProgWorkerStep ==
    /\ main.pc # "exited"
    /\ WorkerStep

\* The process exits when the control thread has left and the loader thread and
\* every worker thread have ended; what the store still holds is freed.
ProcessExit ==
    /\ main.pc = "shutdown"
    /\ loader.pc = "dead"
    /\ \A w \in DOMAIN threads : ~Running(threads[w])
    /\ main' = [main EXCEPT !.pc = "exited"]
    /\ threads' = Collect(threads, EmptyStore)
    /\ store' = EmptyStore
    /\ last' = NoCall
    /\ UNCHANGED <<files, index, zoom_level, walk, entry, loader>>

Init ==
    /\ store = EmptyStore
    /\ threads = <<>>
    /\ files = <<>>
    /\ index = 0
    /\ zoom_level = 0
    /\ walk \in ProgWalks
    /\ entry \in 0..Len(walk)
    /\ main = [pc |-> "loop", id |-> None, seen |-> None, how |-> None]
    /\ loader = [pc |-> "glob", id |-> None, seen |-> None, done |-> FALSE,
                 stopped |-> FALSE, files |-> <<>>, index |-> 0]
    /\ last = NoCall

MainStep == \E key \in ProgKeys, m \in ProgMeasurements : MainKey(key, m)

MainWaitStep == \E key \in WaitKeys : MainWait(key)

LoaderLoopStep == \E m \in ProgMeasurements : LoaderLoop(m)

LoaderWaitStep == \E key \in WaitKeys : LoaderWait(key)

LoaderGetStep == \E st \in Statuses : LoaderGet(st)

Next ==
    \/ MainStep
    \/ MainWaitStep
    \/ LoaderGlob
    \/ LoaderOnLoad
    \/ LoaderLoopStep
    \/ LoaderWaitStep
    \/ MainGet
    \/ LoaderGetStep
    \/ ProgWorkerStep
    \/ ProcessExit

Spec == Init /\ [][Next]_vars

\* ------------------------------------------------------------------ claims, SpecScaler

KeyOf(t) == FingerprintOf(t.file, t.i_width, t.i_height)

ScaleOk(l) == l.op = "scale" /\ l.raised = None

\* C1: a scale call whose fingerprint is already in the store returns that
\* fingerprint and leaves the store and the workers as they were (no worker is
\* created or started); the store holds one worker per fingerprint, each under
\* its own fingerprint.
C1_Dedup ==
    [][ /\ (ScaleOk(last') /\ last'.ret \in DOMAIN store) =>
            /\ last'.hit
            /\ last'.ret = Fingerprint(last'.file, last'.native, last'.zoom)
            /\ store' = store
            /\ threads' = threads
        /\ \A a \in DOMAIN store' :
            /\ KeyOf(threads'[store'[a]]) = a
            /\ \A b \in DOMAIN store' : store'[a] = store'[b] => a = b ]_vars

\* Two scale calls for the same request have been made and one worker exists.
C1_Witness ==
    /\ ScaleOk(last) /\ last.hit /\ last.zoom = 0
    /\ Len(threads) = 1
    /\ store[last.ret] = 1

\* C2 as stated: scale(F, 0) followed by scale(F, 3) with the same native size
\* returns two different fingerprints, stored with two distinct workers.
C2_Original ==
    [][ ( /\ ScaleOk(last) /\ last.zoom = 0
          /\ ScaleOk(last') /\ last'.zoom = 3
          /\ last'.file = last.file /\ last'.native = last.native ) =>
        /\ last'.ret # last.ret
        /\ {last.ret, last'.ret} \subseteq DOMAIN store'
        /\ store'[last.ret] # store'[last'.ret] ]_vars

\* C2, amended: the same for a native width or height of at least 4.
C2_Independence ==
    [][ ( /\ ScaleOk(last) /\ last.zoom = 0
          /\ ScaleOk(last') /\ last'.zoom = 3
          /\ last'.file = last.file /\ last'.native = last.native
          /\ (last.native[1] >= 4 \/ last.native[2] >= 4) ) =>
        /\ last'.ret # last.ret
        /\ {last.ret, last'.ret} \subseteq DOMAIN store'
        /\ store'[last.ret] # store'[last'.ret] ]_vars

\* scale(F, 3) has just been answered with a new worker while the worker of
\* scale(F, 0) is stored under another fingerprint.
C2_Witness ==
    /\ ScaleOk(last) /\ last.zoom = 3 /\ ~last.hit
    /\ (last.native[1] >= 4 \/ last.native[2] >= 4)
    /\ Fingerprint(last.file, last.native, 0) \in DOMAIN store
    /\ store[Fingerprint(last.file, last.native, 0)] # store[last.ret]

\* C3: a scale call whose dimension query exits nonzero raises ScalingError and
\* leaves the store and the workers exactly as they were.
C3_MeasureFail ==
    [][ (last'.op = "scale" /\ last'.status # 0) =>
        /\ last'.raised = "ScalingError"
        /\ store' = store
        /\ threads' = threads ]_vars

\* A scale call has failed on a store that holds a worker.
C3_Witness ==
    /\ last.op = "scale" /\ last.status # 0 /\ last.raised = "ScalingError"
    /\ DOMAIN store # {}

\* C4: teardown does not raise, empties the store, so that get and is_done of
\* every fingerprint that was stored are a KeyError, and waits for no worker:
\* a worker that was running is still where it was.
C4_Teardown ==
    [][ last'.op = "teardown" =>
        /\ last'.raised = None
        /\ last'.ids = DOMAIN store
        /\ store' = EmptyStore
        /\ \A id \in DOMAIN store :
              get(id)' = "KeyError" /\ is_done(id)' = "KeyError"
        /\ \A w \in Range(store) :
              Running(threads[w]) =>
                /\ threads'[w].pc = threads[w].pc
                /\ ~threads'[w].done
                /\ threads'[w].proc = threads[w].proc ]_vars

\* teardown has run while a stored worker was running.
C4_Witness ==
    /\ last.op = "teardown"
    /\ \E w \in last.wids : Running(threads[w])

\* C5: stop sets the worker's stopped flag and removes its entry; the store
\* never holds a stopped worker; a scale call whose fingerprint is not in the
\* store (never stored, stopped or torn down) registers a brand-new, started
\* worker under it.
C5_StopForgets ==
    [][ /\ (last'.op = "stop" /\ last'.raised = None) =>
            /\ last'.wid = store[last'.id]
            /\ threads'[last'.wid].stopped
            /\ last'.id \notin DOMAIN store'
            /\ last'.wid \notin Range(store')
        /\ (ScaleOk(last') /\ last'.ret \notin DOMAIN store) =>
            /\ ~last'.hit
            /\ Len(threads') = Len(threads) + 1
            /\ store'[last'.ret] = Len(threads')
            /\ threads'[Len(threads')].pc = "start"
            /\ ~threads'[Len(threads')].stopped
            /\ ~threads'[Len(threads')].done
        /\ \A id \in DOMAIN store' : ~threads'[store'[id]].stopped ]_vars

\* A new worker has been registered under the fingerprint of a worker that was
\* stopped and is still polling.
C5_Witness ==
    /\ ScaleOk(last) /\ ~last.hit
    /\ \E w \in 1..(Len(threads) - 1) :
          /\ threads[w].stopped
          /\ threads[w].pc = "poll"
          /\ KeyOf(threads[w]) = last.ret
          /\ store[last.ret] # w

\* C12 as stated: get of a stored fingerprint is absent (None) as long as the
\* worker stored under it is not Done.
C12_GetAbsentUntilDone ==
    \A id \in DOMAIN store : ~is_done(id) => get(id) = None

\* C13 as stated: after teardown every worker that was in the store has its
\* stopped flag set.
C13_TeardownSignals ==
    [][ last'.op = "teardown" =>
            \A w \in last'.wids : threads'[w].stopped ]_vars

\* C18 as stated: a scale call that is answered from the store is answered with
\* a worker that was created for the same file, so two different files never
\* share a fingerprint.
C18_FingerprintNamesFile ==
    [][ (ScaleOk(last') /\ last'.hit) =>
            threads[store[last'.ret]].file = last'.file ]_vars

\* C20 as stated, for a worker whose run has ended: it has set Done, so whoever
\* waits on is_done for it stops waiting.
C20_EndedWorkerIsDone ==
    \A w \in DOMAIN threads :
        threads[w].pc \in {"dead", "crashed"} => threads[w].done

\* ------------------------------------------------------------------ claims, Spec

\* C6 as stated: once the process has exited normally (the control thread left
\* through the main loop's exit or through an exit key read in its wait on the
\* cache), every temp file a worker created has been deleted exactly once and
\* no file is left at its path.
C6_TempFilesReleased ==
    (main.pc = "exited" /\ main.how = "normal") =>
        \A w \in DOMAIN threads :
            threads[w].tmpf # "none" =>
                /\ threads[w].unlinks = 1
                /\ ~threads[w].onDisk

\* The step in which the control thread, or the loader thread, reads an exit key
\* in its wait on a stored fingerprint and takes lines 405-408.
MainExitsFromWait ==
    main.pc = "wait" /\ main'.pc = "shutdown" /\ main.id \in DOMAIN store

LoaderExitsFromWait ==
    loader.pc = "wait" /\ loader'.pc = "dead" /\ loader.id \in DOMAIN store

\* C11 as stated: when an exit key is read in a wait on the cache, in whichever
\* thread, the awaited entry is stopped, the cache is torn down, the enumerator
\* is told to stop, and the process terminates: the control thread has left its
\* loop.
C11_ExitFromAnyWait ==
    [][ /\ MainExitsFromWait =>
            /\ threads'[store[main.id]].stopped
            /\ store' = EmptyStore
            /\ loader.pc # "dead" => loader'.stopped
            /\ main'.how = "normal"
        /\ LoaderExitsFromWait =>
            /\ threads'[store[loader.id]].stopped
            /\ store' = EmptyStore
            /\ loader'.stopped
            /\ main'.pc \in {"shutdown", "exited"} ]_vars

\* An index that addresses a file of the loaded list.
InRange(i) == i \in 0..(Len(files) - 1)

\* A worker that polls a resize process which has not ended.
Resizing(w) == threads[w].pc = "poll" /\ threads[w].proc = "running"

\* The control loop reads a navigation key and the index changes.
NavKeys == {"RIGHT", "LEFT", "END", "HOME"}

NavStep ==
    \E key \in NavKeys, m \in ProgMeasurements :
        MainKey(key, m) /\ index' # index

\* C14 as stated: while a worker polls a resize process that does not end, and
\* the control thread is in its loop or in the wait on that worker, with two or
\* more files loaded, a navigation input can be processed and change the index.
C14_NavigationNotBlocked ==
    \A w \in DOMAIN threads :
        ( /\ Resizing(w)
          /\ loader.pc \notin {"glob", "callback"}
          /\ Len(files) > 1 /\ InRange(index)
          /\ Len(threads) < MaxThreads
          /\ \/ main.pc = "loop"
             \/ main.pc = "wait" /\ main.id \in DOMAIN store /\ store[main.id] = w )
        => ENABLED NavStep

\* C15: every get(fingerprint) the viewer makes in get_scaled_current reads the
\* worker whose Done flag the same thread has seen true before, that worker is
\* Done, and the result read is the path the worker has written.
C15_GetAfterDone ==
    [][ last'.op = "get" =>
            /\ last'.seen = last'.wid
            /\ threads[last'.wid].done
            /\ last'.ret = threads[last'.wid].scaled
            /\ last'.ret # None ]_vars

\* The control thread has read the temp path of a worker that took the resize
\* path.
C15_Witness ==
    /\ last.op = "get" /\ last.by = "main"
    /\ last.ret = "tmp"
    /\ threads[last.wid].done

\* The enumerator has not yet handed the file list and the starting index to the
\* viewer (lines 245-246 have not run).
NotDelivered == loader.pc \in {"glob", "callback"}

\* C16 as stated: until the list is delivered no input has changed the index or
\* the zoom level, caused a cache request or a redisplay (which would fail on
\* the empty list); an exit key alone has an effect.
C16_InputsIgnoredUntilLoaded ==
    NotDelivered =>
        /\ index = 0 /\ zoom_level = 0
        /\ store = EmptyStore /\ threads = <<>>
        /\ main.pc \in {"loop", "shutdown", "exited"}
        /\ main.how # "crashed"

\* A step of the loader thread: its position in run / on_load changes.
ByLoaderThread == loader'.pc # loader.pc

\* C17 as stated, for the navigation state: the file list, the index and the
\* zoom level are written by the control thread only, never in a step of the
\* loader thread.
C17_ControlThreadOwnsNavigation ==
    [][ (files' # files \/ index' # index \/ zoom_level' # zoom_level) =>
            ~ByLoaderThread ]_vars

\* C19 as stated: whenever a thread leaves its wait (an is_done call has
\* answered or raised) or its get, the fingerprint it asked for is in the store.
C19_AskedOnlyForStored ==
    [][ /\ (main.pc \in {"wait", "get"} /\ main'.pc # main.pc) =>
            main.id \in DOMAIN store
        /\ (loader.pc \in {"wait", "get"} /\ loader'.pc # loader.pc) =>
            loader.id \in DOMAIN store ]_vars

\* C21 as stated: when the enumerator has finished with a non-empty list of N
\* files, the starting index it holds for the viewer is in [0, N-1], and it is
\* 0 when the viewer was given a directory (no entry path).
C21_StartIndexInRange ==
    (loader.done /\ loader.files # <<>>) =>
        /\ loader.index \in 0..(Len(loader.files) - 1)
        /\ entry = 0 => loader.index = 0

\* ------------------------------------------------------------------ claims, SpecAlbum

NextCall(l) == l.op = "goto_next" \/ (l.op = "key" /\ l.key = "RIGHT")

PrevCall(l) == l.op = "goto_prev" \/ (l.op = "key" /\ l.key = "LEFT")

FirstCall(l) == l.op = "goto_first" \/ (l.op = "key" /\ l.key = "HOME")

LastCall(l) == l.op = "goto_last" \/ (l.op = "key" /\ l.key = "END")

\* C7: goto_next and goto_prev called at an index in [0, N-1] leave it in
\* [0, N-1]; goto_next moves the index by +1 exactly when has_next() held before
\* the call and goto_prev by -1 exactly when has_prev() held; otherwise the index
\* is unchanged.
C7_NextPrev ==
    /\ (NextCall(last) /\ InRange(last.from[1])) =>
        /\ InRange(index)
        /\ index = last.from[1] + (IF HasNextAt(last.from[1]) THEN 1 ELSE 0)
        /\ HasNextAt(last.from[1]) <=> last.from[1] < Len(files) - 1
    /\ (PrevCall(last) /\ InRange(last.from[1])) =>
        /\ InRange(index)
        /\ index = last.from[1] - (IF HasPrevAt(last.from[1]) THEN 1 ELSE 0)
        /\ HasPrevAt(last.from[1]) <=> last.from[1] > 0

\* goto_next has moved the index onto the last file.
C7_Witness ==
    /\ last.op = "goto_next"
    /\ InRange(last.from[1])
    /\ index = last.from[1] + 1
    /\ index = Len(files) - 1
    /\ Len(files) >= 3

\* C8: goto_first leaves the index at 0 and goto_last at N-1; the call makes
\* one display() call when the target differs from the index it started from,
\* and none, with the zoom level untouched, when it equals it.
C8_FirstLast ==
    /\ last.op = "goto_first" =>
        /\ index = 0
        /\ last.displays = (IF last.from[1] # 0 THEN 1 ELSE 0)
        /\ last.from[1] = 0 => zoom_level = last.from[2]
    /\ last.op = "goto_last" =>
        /\ index = Len(files) - 1
        /\ last.displays = (IF last.from[1] # Len(files) - 1 THEN 1 ELSE 0)
        /\ last.from[1] = Len(files) - 1 => zoom_level = last.from[2]

\* goto_first has been called at index 0 with the image zoomed.
C8_Witness ==
    /\ last.op = "goto_first"
    /\ last.from = <<0, 2>>
    /\ last.displays = 0
    /\ zoom_level = 2

\* C9 as stated: the zoom level stays in [0, ZMAX] under the zoom requests that
\* can_zoom_in / can_zoom_out admit.
C9_ZoomBounds == zoom_level \in 0..ZMAX

\* C10: a navigation that changes the index leaves the zoom level at 0; a zoom
\* request changes the zoom level by one and leaves the index as it was.
C10_NavResetsZoom ==
    /\ (NextCall(last) \/ PrevCall(last) \/ FirstCall(last) \/ LastCall(last)) =>
        /\ index # last.from[1] => zoom_level = 0
        /\ index = last.from[1] => zoom_level = last.from[2]
    /\ (last.op = "key" /\ last.key = "=") =>
        /\ index = last.from[1]
        /\ zoom_level \in {last.from[2], last.from[2] + 1}
    /\ (last.op = "key" /\ last.key = "-") =>
        /\ index = last.from[1]
        /\ zoom_level \in {last.from[2], last.from[2] - 1}

\* goto_next from (index 2, zoom 5) has given (index 3, zoom 0).
C10_Witness ==
    /\ NextCall(last)
    /\ last.from = <<2, 5>>
    /\ index = 3
    /\ zoom_level = 0

====
